---- MODULE Spec2Model ----
(***************************************************************************)
(* Slot reservation and contention control of the patient appointment      *)
(* system: CacheService (locks), AvailabilityService (slots and holds),    *)
(* AppointmentService (book / reschedule / cancel / check-in / complete)   *)
(* and the request handlers that drive them.                               *)
(*                                                                         *)
(* Every handler is a coroutine that can be suspended at each await;       *)
(* the code between two awaits runs without interruption.  One action of   *)
(* the model is therefore: resume after the previous await, run the        *)
(* synchronous code that follows, and perform the next awaited call.       *)
(***************************************************************************)
EXTENDS Integers, Sequences, FiniteSets, TLC

\* ---------------------------------------------------------------- bounds
NumProcs == 2
MaxAppts == 2
MaxTime == 45
TickStep == 15
MaxHolds == 2
MaxMinutes == 2
MaxEntries == 4
MaxStatEntries == 2

\* ------------------------------------------------------ program constants
LOCK_TTL == 30
SECONDS_PER_MINUTE == 60
DEFAULT_LIMIT == 50

Procs == 1..NumProcs
\* A natural key (provider, date, time) is represented by its start hour: the
\* keys are those of one provider on one weekday.  _generate_sample_slots
\* creates slots at the hours 9, 10, 11, 14, 15 and 16; no slot starts at 12.
SlotKeys == {9, 10}
Keys == SlotKeys \cup {12}
Patients == {"R1", "R2"}
Ttls == {TickStep, LOCK_TTL}

NoLock == [acquired_at |-> -1, expires_at |-> -1]
NoKey == 0
NoAppt == 0
\* TimeSlot.held_by and TimeSlot.held_until default to None.
NoPatient == "none"
NoTime == -1
\* AppointmentUpdate.scheduled_date defaults to None.  Dates are day numbers:
\* the slots of SlotKeys are on day SlotDate, and the natural key of (day,
\* hour) is day * DayLength + hour, as datetime.combine orders date and time.
\* notes default to None.
NoDate == -1
SlotDate == 0
DayLength == 24
Days == {SlotDate, SlotDate + 1}
combine(d, t) == d * DayLength + t

\* Slot keys count hours; end_time is kept in minutes, as the key's start in
\* minutes plus timedelta(minutes=duration_minutes).
MINUTES_PER_HOUR == 60
DEFAULT_DURATION == 30
minutes(k) == k * MINUTES_PER_HOUR
date_of(k) == k \div DayLength
time_of(k) == k % DayLength
\* _generate_sample_slots creates the same hours on each of the next days.
NextDayKeys == {combine(SlotDate + 1, 9)}
NoNotes == "none"
Notes == {NoNotes, "note"}
\* A TimeSlot of _generate_sample_slots: available, not held.
SampleSlot == [available |-> TRUE, held_by |-> NoPatient, held_until |-> NoTime]

VARIABLES
    now,            \* datetime.utcnow()
    locks,          \* AppointmentService.cache.locks
    granted,        \* per key: callers whose acquire returned True and whose
                    \* lock has not been released since (history of acquire)
    ret,            \* result of the last direct CacheService call
    slots,          \* AppointmentService.availability_service.slots
    apiSlots,       \* routes/availability.py availability_service.slots
    appointments,   \* AppointmentService.appointments, in creation order
    pc,             \* position of each request handler
    req,            \* locals of each request handler
    confirmations,  \* appointments whose confirmation was handed to
                    \* BackgroundTasks / NotificationService.send_confirmation
    holds,          \* routes/availability.py availability_service.holds, in
                    \* creation order
    hret,           \* result of the last hold_slot / release_hold request
    entries,        \* routes/waitlist.py waitlist_service.entries, in
                    \* insertion order (an entry's id is its place)
    wret,           \* result of the last waitlist request
    scans           \* appointments whose process_waitlist was handed to
                    \* BackgroundTasks by the cancel route and has not run

vars == <<now, locks, granted, ret, slots, apiSlots, appointments, pc, req,
          confirmations, holds, hret, entries, wret, scans>>

\* ------------------------------------------------------------ CacheService

\* The guard of acquire_lock: no record, or the record is not in the future.
LockFree(L, k, t) == L[k] = NoLock \/ ~(L[k].expires_at > t)

acquire_lock_stale(L, k, ttl, t) ==
    IF L[k] = NoLock \/ ~(L[k].expires_at >= t)
    THEN [ok |-> TRUE,
          locks |-> [L EXCEPT ![k] = [acquired_at |-> t, expires_at |-> t + ttl]]]
    ELSE [ok |-> FALSE, locks |-> L]

acquire_lock_overwrite(L, k, ttl, t) ==
    [ok |-> TRUE,
     locks |-> [L EXCEPT ![k] = [acquired_at |-> t, expires_at |-> t + ttl]]]

acquire_lock_no_ttl(L, k, ttl, t) ==
    IF LockFree(L, k, t)
    THEN [ok |-> TRUE,
          locks |-> [L EXCEPT ![k] = [acquired_at |-> t, expires_at |-> t]]]
    ELSE [ok |-> FALSE, locks |-> L]

acquire_lock_steal(L, k, ttl, t) ==
    IF LockFree(L, k, t)
    THEN [ok |-> TRUE,
          locks |-> [L EXCEPT ![k] = [acquired_at |-> t, expires_at |-> t + ttl]]]
    ELSE [ok |-> FALSE, locks |-> [L EXCEPT ![k] = NoLock]]

acquire_lock(L, k, ttl, t) ==
    IF LockFree(L, k, t)
    THEN [ok |-> TRUE,
          locks |-> [L EXCEPT ![k] = [acquired_at |-> t, expires_at |-> t + ttl]]]
    ELSE [ok |-> FALSE, locks |-> L]

release_lock_all(L, k) == [j \in DOMAIN L |-> NoLock]

release_lock(L, k) == [L EXCEPT ![k] = NoLock]

extend_lock(L, k, ttl, t) ==
    IF L[k] # NoLock
    THEN [ok |-> TRUE, locks |-> [L EXCEPT ![k].expires_at = t + ttl]]
    ELSE [ok |-> FALSE, locks |-> L]

\* Callers that were granted the lock on k and still hold it: the record has
\* neither been released nor expired.
LiveHolders(k) ==
    IF locks[k] # NoLock /\ locks[k].expires_at > now THEN granted[k] ELSE {}

GrantedAfterAcquire(c, k, r) ==
    IF r.ok THEN [granted EXCEPT ![k] = LiveHolders(k) \cup {c}] ELSE granted

GrantedAfter(L) == [k \in Keys |-> IF L[k] = NoLock THEN {} ELSE granted[k]]

NoRet == [op |-> "none", value |-> FALSE]

\* ------------------------------------------------------ AvailabilityService

is_slot_available_missing_ok(S, k) == IF k \in DOMAIN S THEN S[k].available ELSE TRUE

is_slot_available(S, k) == IF k \in DOMAIN S THEN S[k].available ELSE FALSE

mark_slot_booked_noop(S, k) == S

mark_slot_booked(S, k) ==
    IF k \in DOMAIN S THEN [S EXCEPT ![k].available = FALSE] ELSE S

mark_slot_available(S, k) ==
    IF k \in DOMAIN S THEN [S EXCEPT ![k].available = TRUE] ELSE S

\* search_slots without filters: the natural keys of the slots returned.
search_slots(S) == {k \in DOMAIN S : S[k].available}

hold_slot_no_expiry(S, H, k, patient, d, t) ==
    IF \/ k \notin DOMAIN S \/ ~S[k].available
       \/ S[k].held_by \notin {NoPatient, patient}
    THEN [ok |-> FALSE, slots |-> S, holds |-> H]
    ELSE [ok |-> TRUE,
          slots |-> [S EXCEPT ![k].held_by = patient,
                              ![k].held_until = t + d * SECONDS_PER_MINUTE],
          holds |-> Append(H, [slot_id |-> k, patient_id |-> patient, held_at |-> t,
                               expires_at |-> t + d * SECONDS_PER_MINUTE,
                               status |-> "active"])]

hold_slot_by_records(S, H, k, patient, d, t) ==
    IF \/ k \notin DOMAIN S \/ ~S[k].available
       \/ \E i \in DOMAIN H : /\ H[i].slot_id = k /\ H[i].status = "active"
                               /\ H[i].patient_id # patient
    THEN [ok |-> FALSE, slots |-> S, holds |-> H]
    ELSE [ok |-> TRUE,
          slots |-> [S EXCEPT ![k].held_by = patient,
                              ![k].held_until = t + d * SECONDS_PER_MINUTE],
          holds |-> Append(H, [slot_id |-> k, patient_id |-> patient, held_at |-> t,
                               expires_at |-> t + d * SECONDS_PER_MINUTE,
                               status |-> "active"])]

\* hold_slot: "Slot not available" when the slot does not exist or is booked;
\* otherwise a SlotHold (status "active") is stored under a new hold id and the
\* slot's held_by and held_until are set.  Neither an existing hold nor its
\* expiry is looked at.  d is duration_minutes.
SlotHold(k, patient, d, t) ==
    [slot_id |-> k, patient_id |-> patient, held_at |-> t,
     expires_at |-> t + d * SECONDS_PER_MINUTE, status |-> "active"]

hold_slot(S, H, k, patient, d, t) ==
    IF k \notin DOMAIN S \/ ~S[k].available
    THEN [ok |-> FALSE, slots |-> S, holds |-> H]
    ELSE [ok |-> TRUE,
          slots |-> [S EXCEPT ![k].held_by = patient,
                              ![k].held_until = t + d * SECONDS_PER_MINUTE],
          holds |-> Append(H, SlotHold(k, patient, d, t))]

release_hold_any(S, k, patient) ==
    IF k \in DOMAIN S
    THEN [released |-> TRUE,
          slots |-> [S EXCEPT ![k].held_by = NoPatient, ![k].held_until = NoTime]]
    ELSE [released |-> FALSE, slots |-> S]

\* release_hold: clears held_by and held_until when the slot exists and is
\* held by patient; reports whether it did (the "slot_hold_released" log line).
release_hold(S, k, patient) ==
    IF k \in DOMAIN S /\ S[k].held_by = patient
    THEN [released |-> TRUE,
          slots |-> [S EXCEPT ![k].held_by = NoPatient, ![k].held_until = NoTime]]
    ELSE [released |-> FALSE, slots |-> S]

NoHoldRet == [op |-> "none", value |-> FALSE, after_release |-> FALSE]

\* The hold of another patient on slot k has been released: one of its hold
\* records is another patient's, the slot is not held, and the last request
\* was a release that cleared a hold (history, for hret.after_release).
AfterRelease(k, patient) ==
    /\ hret.op = "release" /\ hret.value
    /\ k \in DOMAIN apiSlots /\ apiSlots[k].held_by = NoPatient
    /\ \E i \in DOMAIN holds : holds[i].slot_id = k /\ holds[i].patient_id # patient

\* ------------------------------------------------------------------- Init

\* ---------------------------------------------------------- WaitlistService

Providers == {"prov-001", "prov-002"}
\* WaitlistRequest.location_id defaults to None; get_stats takes
\* provider_id = None and location_id = None for "no filter".
NoProvider == "none"
NoLocation == "none"
Locations == {"loc-001", "loc-002"}
\* WaitlistEntry.status: waiting, notified, booked, expired, removed
Statuses == {"waiting", "notified", "booked", "expired", "removed"}

\* WaitlistEntry as add_to_waitlist builds it: status defaults to "waiting"
\* and notified_at to None.
NewEntry(provider, position) ==
    [provider |-> provider, location |-> NoLocation, status |-> "waiting",
     position |-> position, notified_at |-> NoTime]

\* [e for e in self.entries.values() if e.provider_id == provider_id and
\* e.status == "waiting"]: the ids of the matching entries from the i-th on,
\* in the insertion order of the dict.
RECURSIVE waiting_from(_, _, _)
waiting_from(E, provider, i) ==
    IF i > Len(E) THEN <<>>
    ELSE (IF E[i].provider = provider /\ E[i].status = "waiting"
          THEN <<i>> ELSE <<>>) \o waiting_from(E, provider, i + 1)

waiting(E, provider) == waiting_from(E, provider, 1)

\* position = len(existing) + 1; self.entries[entry_id] = entry
add_to_waitlist(E, provider) ==
    Append(E, NewEntry(provider, Len(waiting(E, provider)) + 1))

remove_from_waitlist_renumber(E, e) ==
    IF ~(e \in 1..Len(E)) THEN [error |-> "NotFound", entries |-> E]
    ELSE [error |-> "none",
          entries |-> [i \in 1..Len(E) |->
                         IF i = e THEN [E[i] EXCEPT !.status = "removed"]
                         ELSE IF E[i].provider = E[e].provider
                                 /\ E[i].position > E[e].position
                         THEN [E[i] EXCEPT !.position = @ - 1]
                         ELSE E[i]]]

\* "Waitlist entry not found", or entry.status = "removed".
remove_from_waitlist(E, e) ==
    IF ~(e \in 1..Len(E)) THEN [error |-> "NotFound", entries |-> E]
    ELSE [error |-> "none", entries |-> [E EXCEPT ![e].status = "removed"]]

\* "Waitlist entry not found", or entry.status = "notified" and
\* entry.notified_at = utcnow().
notify_patient(E, e, t) ==
    IF ~(e \in 1..Len(E)) THEN [error |-> "NotFound", entries |-> E]
    ELSE [error |-> "none",
          entries |-> [E EXCEPT ![e].status = "notified", ![e].notified_at = t]]

\* list.sort(key=lambda e: e.position) is stable: an entry goes behind every
\* entry before it in the list whose position is not greater.
insert_by_position(E, sorted, x) ==
    LET n == Cardinality({i \in 1..Len(sorted) :
                            E[sorted[i]].position <= E[x].position})
    IN  SubSeq(sorted, 1, n) \o <<x>> \o SubSeq(sorted, n + 1, Len(sorted))

RECURSIVE sort_by_position(_, _)
sort_by_position(E, ids) ==
    IF ids = <<>> THEN <<>>
    ELSE insert_by_position(E, sort_by_position(E, SubSeq(ids, 1, Len(ids) - 1)),
                            ids[Len(ids)])

\* results filtered, sorted by position, cut at limit: the ids returned.
get_provider_waitlist(E, provider, limit) ==
    LET results == sort_by_position(E, waiting(E, provider))
    IN  SubSeq(results, 1, IF limit < Len(results) THEN limit ELSE Len(results))

\* The entries get_stats counts: those of the provider and of the location,
\* where a filter that is None selects every entry.
matching(E, provider, location) ==
    {i \in 1..Len(E) : /\ provider = NoProvider \/ E[i].provider = provider
                       /\ location = NoLocation \/ E[i].location = location}

\* A float quotient is kept as the fraction it was computed from.
NoStats == [total |-> 0, waiting |-> 0, notified |-> 0, converted |-> 0,
            conversion_rate |-> [num |-> 0, den |-> 1], error |-> "none"]

get_stats_divide(E, provider, location) ==
    LET m == matching(E, provider, location)
        converted == Cardinality({i \in m : E[i].status = "booked"})
    IN  [total |-> Cardinality(m),
         waiting |-> Cardinality({i \in m : E[i].status = "waiting"}),
         notified |-> Cardinality({i \in m : E[i].status = "notified"}),
         converted |-> converted,
         conversion_rate |-> [num |-> converted, den |-> Cardinality(m)],
         error |-> IF Cardinality(m) = 0 THEN "ZeroDivisionError" ELSE "none"]

\* conversion_rate = converted / total if total > 0 else 0
get_stats(E, provider, location) ==
    LET m == matching(E, provider, location)
        converted == Cardinality({i \in m : E[i].status = "booked"})
    IN  [total |-> Cardinality(m),
         waiting |-> Cardinality({i \in m : E[i].status = "waiting"}),
         notified |-> Cardinality({i \in m : E[i].status = "notified"}),
         converted |-> converted,
         conversion_rate |-> IF Cardinality(m) > 0
                             THEN [num |-> converted, den |-> Cardinality(m)]
                             ELSE [num |-> 0, den |-> 1],
         error |-> "none"]

NoWaitRet == [op |-> "none", provider |-> "none", error |-> "none", value |-> <<>>,
              location |-> NoLocation, stats |-> NoStats]

IdleReq == [op |-> "none", key |-> NoKey, is_available |-> FALSE,
            appt |-> NoAppt, error |-> "none", notes |-> NoNotes]

Init ==
    /\ now = 0
    /\ locks = [k \in Keys |-> NoLock]
    /\ granted = [k \in Keys |-> {}]
    /\ ret = NoRet
    /\ slots = [k \in SlotKeys |-> SampleSlot]
    /\ apiSlots = [k \in SlotKeys |-> SampleSlot]
    /\ appointments = <<>>
    /\ pc = [p \in Procs |-> "idle"]
    /\ req = [p \in Procs |-> IdleReq]
    /\ confirmations = {}
    /\ holds = <<>>
    /\ hret = NoHoldRet
    /\ entries = <<>>
    /\ wret = NoWaitRet
    /\ scans = {}

\* The same, with a slot on the next day.
InitTwoDays ==
    /\ now = 0
    /\ locks = [k \in Keys |-> NoLock]
    /\ granted = [k \in Keys |-> {}]
    /\ ret = NoRet
    /\ slots = [k \in SlotKeys \cup NextDayKeys |-> SampleSlot]
    /\ apiSlots = [k \in SlotKeys |-> SampleSlot]
    /\ appointments = <<>>
    /\ pc = [p \in Procs |-> "idle"]
    /\ req = [p \in Procs |-> IdleReq]
    /\ confirmations = {}
    /\ holds = <<>>
    /\ hret = NoHoldRet
    /\ entries = <<>>
    /\ wret = NoWaitRet
    /\ scans = {}

\* The clock advances.
Tick ==
    /\ now + TickStep <= MaxTime
    /\ now' = now + TickStep
    /\ UNCHANGED <<locks, granted, ret, slots, apiSlots, appointments, pc, req, confirmations, holds, hret, entries, wret, scans>>

\* -------------------------------------------- direct use of the CacheService

LockAcquire(c, k, ttl) ==
    LET r == acquire_lock(locks, k, ttl, now) IN
    /\ locks' = r.locks
    /\ granted' = GrantedAfterAcquire(c, k, r)
    /\ ret' = [op |-> "acquire", value |-> r.ok]
    /\ UNCHANGED <<now, slots, apiSlots, appointments, pc, req, confirmations, holds, hret, entries, wret, scans>>

LockRelease(k) ==
    /\ locks' = release_lock(locks, k)
    /\ granted' = GrantedAfter(locks')
    /\ ret' = [op |-> "release", value |-> FALSE]
    /\ UNCHANGED <<now, slots, apiSlots, appointments, pc, req, confirmations, holds, hret, entries, wret, scans>>

LockExtend(k, ttl) ==
    LET r == extend_lock(locks, k, ttl, now) IN
    /\ locks' = r.locks
    /\ granted' = granted
    /\ ret' = [op |-> "extend", value |-> r.ok]
    /\ UNCHANGED <<now, slots, apiSlots, appointments, pc, req, confirmations, holds, hret, entries, wret, scans>>

NextLock ==
    \/ \E c \in Procs, k \in SlotKeys, ttl \in Ttls : LockAcquire(c, k, ttl)
    \/ \E k \in SlotKeys : LockRelease(k)
    \/ \E k \in SlotKeys, ttl \in Ttls : LockExtend(k, ttl)
    \/ Tick

SpecLock == Init /\ [][NextLock]_vars

\* ------------------------- hold routes of routes/availability.py (no locking)

Durations == {1}

\* A minute passes.
TickMinute ==
    /\ now + SECONDS_PER_MINUTE <= MaxMinutes * SECONDS_PER_MINUTE
    /\ now' = now + SECONDS_PER_MINUTE
    /\ UNCHANGED <<locks, granted, ret, slots, apiSlots, appointments, pc, req,
                   confirmations, holds, hret, entries, wret, scans>>

\* POST /slots/{slot_id}/hold
HoldSlot(k, patient, d) ==
    LET r == hold_slot(apiSlots, holds, k, patient, d, now) IN
    /\ r.ok => Len(holds) < MaxHolds
    /\ apiSlots' = r.slots
    /\ holds' = r.holds
    /\ hret' = [op |-> "hold", value |-> r.ok,
                after_release |-> AfterRelease(k, patient)]
    /\ UNCHANGED <<now, locks, granted, ret, slots, appointments, pc, req,
                   confirmations, entries, wret, scans>>

\* DELETE /slots/{slot_id}/hold
ReleaseHold(k, patient) ==
    LET r == release_hold(apiSlots, k, patient) IN
    /\ apiSlots' = r.slots
    /\ hret' = [op |-> "release", value |-> r.released, after_release |-> FALSE]
    /\ UNCHANGED <<now, locks, granted, ret, slots, appointments, pc, req,
                   confirmations, holds, entries, wret, scans>>

NextHold ==
    \/ \E k \in Keys, patient \in Patients, d \in Durations : HoldSlot(k, patient, d)
    \/ \E k \in Keys, patient \in Patients : ReleaseHold(k, patient)
    \/ TickMinute

SpecHold == Init /\ [][NextHold]_vars

\* ----------------------------------------- AppointmentService.create_appointment

\* try/finally around the critical section: the lock is released on the way
\* out, whether the body returned or raised.
finally_release_on_return_only(L, k, raised) ==
    IF raised THEN L ELSE release_lock(L, k)

finally_release(L, k, raised) == release_lock(L, k)

\* Book calls that may still store an appointment.
InFlight == {q \in Procs : pc[q] \in {"check", "create"}}

\* Appointment.cancellation_reason defaults to None (cancelled_at to NoTime).
NoReason == "none"
Reasons == {NoReason, "Patient request"}

NewAppointment_confirmed(patient, k) ==
    [patient |-> patient, key |-> k, status |-> "confirmed", notes |-> NoNotes,
     end_time |-> minutes(k) + DEFAULT_DURATION,
     checked_in_at |-> NoTime,
     cancelled_at |-> NoTime, cancellation_reason |-> NoReason]

NewAppointment(patient, k) ==
    [patient |-> patient, key |-> k, status |-> "scheduled", notes |-> NoNotes,
     end_time |-> minutes(k) + DEFAULT_DURATION,
     checked_in_at |-> NoTime,
     cancelled_at |-> NoTime, cancellation_reason |-> NoReason]

\* slot_id, lock_key, acquire_lock(lock_key, ttl=30); "Slot is currently being
\* booked by another user" is raised before the try block is entered.
BookAcquire(p, k) ==
    LET r == acquire_lock(locks, k, LOCK_TTL, now) IN
    /\ pc[p] = "idle"
    /\ Len(appointments) + Cardinality(InFlight) < MaxAppts
    /\ locks' = r.locks
    /\ granted' = GrantedAfterAcquire(p, k, r)
    /\ pc' = [pc EXCEPT ![p] = IF r.ok THEN "check" ELSE "raised"]
    /\ req' = [req EXCEPT ![p] =
                 [op |-> "book", key |-> k, is_available |-> FALSE, appt |-> NoAppt,
                  error |-> IF r.ok THEN "none" ELSE "SlotContended",
                  notes |-> NoNotes]]
    /\ UNCHANGED <<now, ret, slots, apiSlots, appointments, confirmations, holds, hret, entries, wret, scans>>

\* is_available = await is_slot_available(...)
BookCheck(p) ==
    /\ pc[p] = "check"
    /\ req' = [req EXCEPT ![p].is_available = is_slot_available(slots, req[p].key)]
    /\ pc' = [pc EXCEPT ![p] = "create"]
    /\ UNCHANGED <<now, locks, granted, ret, slots, apiSlots, appointments, confirmations, holds, hret, entries, wret, scans>>

\* "Selected slot is no longer available", or the Appointment is built (which
\* raises when timedelta(minutes=duration_minutes) overflows), stored, and the
\* slot is marked booked.  A raise runs the finally block.  The request's
\* patient_id and duration_minutes are first read here, so they are drawn here:
\* valid says that duration_minutes is within the range of timedelta.
BookCreate(p, patient, valid) ==
    /\ pc[p] = "create"
    /\ IF ~req[p].is_available \/ ~valid
       THEN /\ locks' = finally_release(locks, req[p].key, TRUE)
            /\ granted' = GrantedAfter(locks')
            /\ req' = [req EXCEPT ![p].error =
                         IF ~req[p].is_available THEN "SlotUnavailable" ELSE "Error"]
            /\ pc' = [pc EXCEPT ![p] = "raised"]
            /\ UNCHANGED <<slots, appointments>>
       ELSE /\ appointments' = Append(appointments, NewAppointment(patient, req[p].key))
            /\ slots' = mark_slot_booked(slots, req[p].key)
            /\ req' = [req EXCEPT ![p].appt = Len(appointments) + 1]
            /\ pc' = [pc EXCEPT ![p] = "release"]
            /\ UNCHANGED <<locks, granted>>
    /\ UNCHANGED <<now, ret, apiSlots, confirmations, holds, hret, entries, wret, scans>>

\* return appointment: the finally block releases the lock.
BookRelease(p) ==
    /\ pc[p] = "release"
    /\ locks' = finally_release(locks, req[p].key, FALSE)
    /\ granted' = GrantedAfter(locks')
    /\ pc' = [pc EXCEPT ![p] = "respond"]
    /\ UNCHANGED <<now, ret, slots, apiSlots, appointments, req, confirmations, holds, hret, entries, wret, scans>>

\* routes/appointments.py create_appointment: the confirmation is handed to
\* BackgroundTasks, which runs send_confirmation once the response is out.
BookRespond(p) ==
    /\ pc[p] = "respond"
    /\ confirmations' = confirmations \cup {req[p].appt}
    /\ pc' = [pc EXCEPT ![p] = "idle"]
    /\ req' = [req EXCEPT ![p] = IdleReq]
    /\ UNCHANGED <<now, locks, granted, ret, slots, apiSlots, appointments, holds, hret, entries, wret, scans>>

\* The route turns the exception into an HTTP error response.
Raised(p) ==
    /\ pc[p] = "raised"
    /\ pc' = [pc EXCEPT ![p] = "idle"]
    /\ req' = [req EXCEPT ![p] = IdleReq]
    /\ UNCHANGED <<now, locks, granted, ret, slots, apiSlots, appointments, confirmations, holds, hret, entries, wret, scans>>

NextBook ==
    \/ \E p \in Procs, k \in Keys : BookAcquire(p, k)
    \/ \E p \in Procs : BookCheck(p)
    \/ \E p \in Procs, patient \in Patients, valid \in BOOLEAN :
          BookCreate(p, patient, valid)
    \/ \E p \in Procs : BookRelease(p)
    \/ \E p \in Procs : BookRespond(p)
    \/ \E p \in Procs : Raised(p)
    \/ Tick

SpecBook == Init /\ [][NextBook]_vars

\* No request handler is running.
AllIdle == scans = {} /\ \A q \in Procs : pc[q] = "idle"

\* Hold requests and book calls together, the book calls one at a time.
NextHoldBook ==
    \/ \E k \in Keys, patient \in Patients, d \in Durations : HoldSlot(k, patient, d)
    \/ \E k \in Keys, patient \in Patients : ReleaseHold(k, patient)
    \/ \E p \in Procs, k \in Keys : AllIdle /\ BookAcquire(p, k)
    \/ \E p \in Procs : BookCheck(p)
    \/ \E p \in Procs, patient \in Patients, valid \in BOOLEAN :
          BookCreate(p, patient, valid)
    \/ \E p \in Procs : BookRelease(p)
    \/ \E p \in Procs : BookRespond(p)
    \/ \E p \in Procs : Raised(p)
    \/ TickMinute

SpecHoldBook == Init /\ [][NextHoldBook]_vars

\* ------------------------- reschedule, cancel, check-in, complete (no locking)
\* A handler that returns or raises before its first suspension point runs to
\* completion in one action.

Known(a) == a \in 1..Len(appointments)

\* The route turns the ValueError of a handler into the HTTP 400 response; the
\* error stays in req[p] until Raised(p) has sent it.
Failed(p, op, a, error) ==
    /\ pc' = [pc EXCEPT ![p] = "raised"]
    /\ req' = [req EXCEPT ![p] =
                 [IdleReq EXCEPT !.op = op, !.appt = a, !.error = error]]

\* new_date = update.scheduled_date or the old date, new_time =
\* update.scheduled_time or the old time; the new natural key combines them.
new_key_given(old, sd, st) ==
    combine(IF sd # NoDate THEN sd ELSE SlotDate,
            IF st # NoKey THEN st ELSE time_of(old))

new_key(old, sd, st) ==
    combine(IF sd # NoDate THEN sd ELSE date_of(old),
            IF st # NoKey THEN st ELSE time_of(old))

\* "if update.notes: appointment.notes = update.notes" (reason likewise).
with_notes(old, notes) == IF notes # NoNotes THEN notes ELSE old

\* update_appointment up to its first await: lookup, the two guards
\* ("Appointment not found", "Cannot update cancelled appointment"), and, when
\* a new date or time is given, is_slot_available on the new key.  Without a
\* new date or time only notes (and reason, updated_at) change and the call
\* returns without suspension.
UpdateCall(p, a, sd, st, notes) ==
    /\ pc[p] = "idle"
    /\ IF ~Known(a)
       THEN Failed(p, "update", a, "NotFound") /\ appointments' = appointments
       ELSE IF appointments[a].status = "cancelled"
       THEN Failed(p, "update", a, "InvalidState") /\ appointments' = appointments
       ELSE IF sd = NoDate /\ st = NoKey
       THEN /\ appointments' = [appointments EXCEPT
                                  ![a].notes = with_notes(@, notes)]
            /\ UNCHANGED <<pc, req>>
       ELSE /\ pc' = [pc EXCEPT ![p] = "u_release"]
            /\ req' = [req EXCEPT ![p] =
                         [op |-> "update",
                          key |-> new_key(appointments[a].key, sd, st),
                          is_available |->
                              is_slot_available(slots, new_key(appointments[a].key, sd, st)),
                          appt |-> a, error |-> "none", notes |-> notes]]
            /\ appointments' = appointments
    /\ UNCHANGED <<now, locks, granted, ret, slots, apiSlots, confirmations, holds, hret, entries, wret, scans>>

UpdateRelease_unchecked(p) ==
    /\ pc[p] = "u_release"
    /\ slots' = mark_slot_available(slots, appointments[req[p].appt].key)
    /\ pc' = [pc EXCEPT ![p] = "u_book"]
    /\ UNCHANGED <<now, locks, granted, ret, apiSlots, appointments, req, confirmations, holds, hret, entries, wret, scans>>

\* "New slot is not available", or mark_slot_available on the old slot.
UpdateRelease(p) ==
    /\ pc[p] = "u_release"
    /\ IF ~req[p].is_available
       THEN /\ pc' = [pc EXCEPT ![p] = "raised"]
            /\ req' = [req EXCEPT ![p].error = "SlotUnavailable"]
            /\ slots' = slots
       ELSE /\ slots' = mark_slot_available(slots, appointments[req[p].appt].key)
            /\ pc' = [pc EXCEPT ![p] = "u_book"]
            /\ req' = req
    /\ UNCHANGED <<now, locks, granted, ret, apiSlots, appointments, confirmations, holds, hret, entries, wret, scans>>

\* appointment.scheduled_time = new; mark_slot_booked on the new slot; then
\* notes (and reason, updated_at) without further suspension.
UpdateBook(p) ==
    /\ pc[p] = "u_book"
    /\ appointments' = [appointments EXCEPT
                          ![req[p].appt].key = req[p].key,
                          ![req[p].appt].notes = with_notes(@, req[p].notes)]
    /\ slots' = mark_slot_booked(slots, req[p].key)
    /\ pc' = [pc EXCEPT ![p] = "returned"]
    /\ UNCHANGED <<now, locks, granted, ret, apiSlots, req, confirmations, holds, hret, entries, wret, scans>>

\* The route returns the updated appointment.
Returned(p) ==
    /\ pc[p] = "returned"
    /\ pc' = [pc EXCEPT ![p] = "idle"]
    /\ req' = [req EXCEPT ![p] = IdleReq]
    /\ UNCHANGED <<now, locks, granted, ret, slots, apiSlots, appointments, confirmations, holds, hret, entries, wret, scans>>

\* cancel_appointment: guards ("Appointment not found", "Appointment already
\* cancelled"), then status = CANCELLED, cancellation_reason, cancelled_at,
\* and mark_slot_available.
cancel_error(A, a) ==
    IF ~(a \in 1..Len(A)) THEN "NotFound"
    ELSE IF A[a].status = "cancelled" THEN "InvalidState"
    ELSE "none"

cancel_appointment_keep_slot(A, S, a, reason, t) ==
    IF cancel_error(A, a) # "none"
    THEN [error |-> cancel_error(A, a), appointments |-> A, slots |-> S]
    ELSE [error |-> "none",
          appointments |-> [A EXCEPT ![a].status = "cancelled",
                                     ![a].cancellation_reason = reason,
                                     ![a].cancelled_at = t],
          slots |-> S]

cancel_appointment_no_reason(A, S, a, reason, t) ==
    IF cancel_error(A, a) # "none"
    THEN [error |-> cancel_error(A, a), appointments |-> A, slots |-> S]
    ELSE [error |-> "none",
          appointments |-> [A EXCEPT ![a].status = "cancelled", ![a].cancelled_at = t],
          slots |-> mark_slot_available(S, A[a].key)]

cancel_appointment_again(A, S, a, reason, t) ==
    IF ~(a \in 1..Len(A))
    THEN [error |-> "NotFound", appointments |-> A, slots |-> S]
    ELSE [error |-> IF A[a].status = "cancelled" THEN "InvalidState" ELSE "none",
          appointments |-> [A EXCEPT ![a].status = "cancelled",
                                     ![a].cancellation_reason = reason,
                                     ![a].cancelled_at = t],
          slots |-> mark_slot_available(S, A[a].key)]

cancel_appointment_late_guard(A, S, a, reason, t) ==
    IF ~(a \in 1..Len(A))
    THEN [error |-> "NotFound", appointments |-> A, slots |-> S]
    ELSE IF A[a].status = "cancelled"
    THEN [error |-> "InvalidState", appointments |-> A,
          slots |-> mark_slot_available(S, A[a].key)]
    ELSE [error |-> "none",
          appointments |-> [A EXCEPT ![a].status = "cancelled",
                                     ![a].cancellation_reason = reason,
                                     ![a].cancelled_at = t],
          slots |-> mark_slot_available(S, A[a].key)]

cancel_appointment(A, S, a, reason, t) ==
    IF cancel_error(A, a) # "none"
    THEN [error |-> cancel_error(A, a), appointments |-> A, slots |-> S]
    ELSE [error |-> "none",
          appointments |-> [A EXCEPT ![a].status = "cancelled",
                                     ![a].cancellation_reason = reason,
                                     ![a].cancelled_at = t],
          slots |-> mark_slot_available(S, A[a].key)]

\* DELETE /appointments/{appointment_id}: cancel_appointment, then
\* background_tasks.add_task(process_waitlist, appointment_id).
Cancel(p, a, reason) ==
    LET r == cancel_appointment(appointments, slots, a, reason, now) IN
    /\ pc[p] = "idle"
    /\ appointments' = r.appointments
    /\ slots' = r.slots
    /\ IF r.error = "none" THEN UNCHANGED <<pc, req>> ELSE Failed(p, "cancel", a, r.error)
    /\ scans' = IF r.error = "none" THEN scans \cup {a} ELSE scans
    /\ UNCHANGED <<now, locks, granted, ret, apiSlots, confirmations, holds, hret, entries, wret>>

\* The background task of the cancel route, AppointmentService.process_waitlist:
\* it logs "processing_waitlist" and does nothing else.
ProcessWaitlist(a) ==
    /\ a \in scans
    /\ scans' = scans \ {a}
    /\ UNCHANGED <<now, locks, granted, ret, slots, apiSlots, appointments, pc, req,
                   confirmations, holds, hret, entries, wret>>

\* check_in: the only guard is that the appointment exists ("Appointment not
\* found"); status = CHECKED_IN and checked_in_at = utcnow().
check_in_no_timestamp(A, a, t) ==
    IF ~(a \in 1..Len(A))
    THEN [error |-> "NotFound", appointments |-> A]
    ELSE [error |-> "none", appointments |-> [A EXCEPT ![a].status = "checked_in"]]

check_in(A, a, t) ==
    IF ~(a \in 1..Len(A))
    THEN [error |-> "NotFound", appointments |-> A]
    ELSE [error |-> "none",
          appointments |-> [A EXCEPT ![a].status = "checked_in",
                                     ![a].checked_in_at = t]]

\* complete: the same guard; status = COMPLETED, notes when given
\* (completed_at and updated_at are not modelled).
complete(A, a, notes) ==
    IF ~(a \in 1..Len(A))
    THEN [error |-> "NotFound", appointments |-> A]
    ELSE [error |-> "none",
          appointments |-> [A EXCEPT ![a].status = "completed",
                                     ![a].notes = with_notes(@, notes)]]

\* POST /appointments/{appointment_id}/check-in
CheckIn(p, a) ==
    LET r == check_in(appointments, a, now) IN
    /\ pc[p] = "idle"
    /\ appointments' = r.appointments
    /\ IF r.error = "none" THEN UNCHANGED <<pc, req>> ELSE Failed(p, "check_in", a, r.error)
    /\ UNCHANGED <<now, locks, granted, ret, slots, apiSlots, confirmations, holds, hret, entries, wret, scans>>

\* POST /appointments/{appointment_id}/complete
Complete(p, a, notes) ==
    LET r == complete(appointments, a, notes) IN
    /\ pc[p] = "idle"
    /\ appointments' = r.appointments
    /\ IF r.error = "none" THEN UNCHANGED <<pc, req>> ELSE Failed(p, "complete", a, r.error)
    /\ UNCHANGED <<now, locks, granted, ret, slots, apiSlots, confirmations, holds, hret, entries, wret, scans>>

\* The handlers of the appointment routes that write a slot or that a slot
\* write depends on (book, update, cancel and its background task, check_in),
\* interleaved at one instant.  patient_id and reason are read by no guard of any handler, so here
\* every request comes from one requester and every cancellation gives the
\* same reason.
Next ==
    \/ \E p \in Procs, k \in Keys : BookAcquire(p, k)
    \/ \E p \in Procs : BookCheck(p)
    \/ \E p \in Procs, valid \in BOOLEAN : BookCreate(p, "R1", valid)
    \/ \E p \in Procs : BookRelease(p)
    \/ \E p \in Procs : BookRespond(p)
    \/ \E p \in Procs : Raised(p)
    \/ \E p \in Procs, a \in 1..MaxAppts, sd \in {NoDate, SlotDate},
          st \in Keys \cup {NoKey} : UpdateCall(p, a, sd, st, NoNotes)
    \/ \E p \in Procs : UpdateRelease(p)
    \/ \E p \in Procs : UpdateBook(p)
    \/ \E p \in Procs : Returned(p)
    \/ \E p \in Procs, a \in 1..MaxAppts : Cancel(p, a, "Patient request")
    \/ \E a \in 1..MaxAppts : ProcessWaitlist(a)
    \/ \E p \in Procs, a \in 1..MaxAppts : CheckIn(p, a)

Spec == Init /\ [][Next]_vars

\* Book and cancel called one after the other by either requester, while the
\* clock advances.
NextCancel ==
    \/ \E p \in Procs, k \in Keys : AllIdle /\ BookAcquire(p, k)
    \/ \E p \in Procs : BookCheck(p)
    \/ \E p \in Procs, patient \in Patients, valid \in BOOLEAN :
          BookCreate(p, patient, valid)
    \/ \E p \in Procs : BookRelease(p)
    \/ \E p \in Procs : BookRespond(p)
    \/ \E p \in Procs : Raised(p)
    \/ \E p \in Procs, a \in 1..MaxAppts, reason \in Reasons :
          AllIdle /\ Cancel(p, a, reason)
    \/ \E a \in 1..MaxAppts : ProcessWaitlist(a)
    \/ Tick

SpecCancel == Init /\ [][NextCancel]_vars

\* All handlers of the appointment routes called one after the other, as the
\* unit tests call them, by one requester, while the clock advances.  An
\* update here carries notes only; SpecReschedule has the updates that move a
\* reservation.
NextSeq ==
    \/ \E p \in Procs, k \in Keys : AllIdle /\ BookAcquire(p, k)
    \/ \E p \in Procs : BookCheck(p)
    \/ \E p \in Procs, valid \in BOOLEAN : BookCreate(p, "R1", valid)
    \/ \E p \in Procs : BookRelease(p)
    \/ \E p \in Procs : BookRespond(p)
    \/ \E p \in Procs : Raised(p)
    \/ \E p \in Procs, a \in 1..MaxAppts, notes \in Notes :
          AllIdle /\ UpdateCall(p, a, NoDate, NoKey, notes)
    \/ \E p \in Procs, a \in 1..MaxAppts : AllIdle /\ Cancel(p, a, "Patient request")
    \/ \E a \in 1..MaxAppts : ProcessWaitlist(a)
    \/ \E p \in Procs, a \in 1..MaxAppts : AllIdle /\ CheckIn(p, a)
    \/ \E p \in Procs, a \in 1..MaxAppts : AllIdle /\ Complete(p, a, NoNotes)
    \/ Tick

SpecSeq == Init /\ [][NextSeq]_vars

\* Book, update (reschedule, notes) and cancel, one call at a time: the
\* sequential behaviour of update_appointment for every input.
NextReschedule ==
    \/ \E p \in Procs, k \in Keys : AllIdle /\ BookAcquire(p, k)
    \/ \E p \in Procs : BookCheck(p)
    \/ \E p \in Procs, valid \in BOOLEAN : BookCreate(p, "R1", valid)
    \/ \E p \in Procs : BookRelease(p)
    \/ \E p \in Procs : BookRespond(p)
    \/ \E p \in Procs : Raised(p)
    \/ \E p \in Procs, a \in 1..MaxAppts, sd \in Days \cup {NoDate},
          st \in Keys \cup {NoKey}, notes \in Notes :
          AllIdle /\ UpdateCall(p, a, sd, st, notes)
    \/ \E p \in Procs : UpdateRelease(p)
    \/ \E p \in Procs : UpdateBook(p)
    \/ \E p \in Procs : Returned(p)
    \/ \E p \in Procs, a \in 1..MaxAppts : AllIdle /\ Cancel(p, a, "Patient request")
    \/ \E a \in 1..MaxAppts : ProcessWaitlist(a)

SpecReschedule == InitTwoDays /\ [][NextReschedule]_vars

\* ------------------------------------------------------------ waitlist routes
\* The handlers of WaitlistService have no suspension point: each request is
\* one action.

\* POST /waitlist
JoinWaitlist(provider) ==
    /\ Len(entries) < MaxEntries
    /\ entries' = add_to_waitlist(entries, provider)
    /\ wret' = [NoWaitRet EXCEPT !.op = "join", !.provider = provider,
                                  !.value = <<Len(entries')>>]
    /\ UNCHANGED <<now, locks, granted, ret, slots, apiSlots, appointments, pc, req,
                   confirmations, holds, hret, scans>>

\* DELETE /waitlist/{entry_id}
LeaveWaitlist(e) ==
    LET r == remove_from_waitlist(entries, e) IN
    /\ entries' = r.entries
    /\ wret' = [NoWaitRet EXCEPT !.op = "leave", !.error = r.error]
    /\ UNCHANGED <<now, locks, granted, ret, slots, apiSlots, appointments, pc, req,
                   confirmations, holds, hret, scans>>

\* POST /waitlist/{entry_id}/notify
NotifyWaitlist(e) ==
    LET r == notify_patient(entries, e, now) IN
    /\ entries' = r.entries
    /\ wret' = [NoWaitRet EXCEPT !.op = "notify", !.error = r.error]
    /\ UNCHANGED <<now, locks, granted, ret, slots, apiSlots, appointments, pc, req,
                   confirmations, holds, hret, scans>>

\* GET /waitlist/provider/{provider_id}, with the default limit
ListWaitlist(provider) ==
    /\ wret' = [NoWaitRet EXCEPT
                  !.op = "list", !.provider = provider,
                  !.value = get_provider_waitlist(entries, provider, DEFAULT_LIMIT)]
    /\ UNCHANGED <<now, locks, granted, ret, slots, apiSlots, appointments, pc, req,
                   confirmations, holds, hret, entries, scans>>

NextWaitlist ==
    \/ \E provider \in Providers : JoinWaitlist(provider)
    \/ \E e \in 1..MaxEntries : LeaveWaitlist(e)
    \/ \E e \in 1..MaxEntries : NotifyWaitlist(e)
    \/ \E provider \in Providers : ListWaitlist(provider)

SpecWaitlist == Init /\ [][NextWaitlist]_vars

\* WaitlistService.get_stats(provider_id, location_id)
GetStats(provider, location) ==
    /\ wret' = [NoWaitRet EXCEPT
                  !.op = "stats", !.provider = provider, !.location = location,
                  !.stats = get_stats(entries, provider, location)]
    /\ UNCHANGED <<now, locks, granted, ret, slots, apiSlots, appointments, pc, req,
                   confirmations, holds, hret, entries, scans>>

\* get_stats is a function of self.entries and its two filters: it is applied
\* to every store of at most MaxStatEntries entries, of any provider,
\* location and status.
StatEntries ==
    UNION {[1..n -> [provider : Providers, location : Locations \cup {NoLocation},
                     status : Statuses, position : {1}, notified_at : {NoTime}]] :
           n \in 0..MaxStatEntries}

InitStats ==
    /\ now = 0
    /\ locks = [k \in Keys |-> NoLock]
    /\ granted = [k \in Keys |-> {}]
    /\ ret = NoRet
    /\ slots = [k \in SlotKeys |-> SampleSlot]
    /\ apiSlots = [k \in SlotKeys |-> SampleSlot]
    /\ appointments = <<>>
    /\ pc = [p \in Procs |-> "idle"]
    /\ req = [p \in Procs |-> IdleReq]
    /\ confirmations = {}
    /\ holds = <<>>
    /\ hret = NoHoldRet
    /\ entries \in StatEntries
    /\ wret = NoWaitRet
    /\ scans = {}

NextStats ==
    \E provider \in Providers \cup {NoProvider}, location \in Locations \cup {NoLocation} :
        GetStats(provider, location)

SpecStats == InitStats /\ [][NextStats]_vars

\* The provider of the slots of SlotKeys.
SlotProvider == "prov-001"

\* Waitlist joins, then book and cancel with the scan that follows a cancel.
NextScan ==
    \/ \E provider \in Providers : AllIdle /\ JoinWaitlist(provider)
    \/ \E p \in Procs, k \in Keys : AllIdle /\ BookAcquire(p, k)
    \/ \E p \in Procs : BookCheck(p)
    \/ \E p \in Procs, valid \in BOOLEAN : BookCreate(p, "R1", valid)
    \/ \E p \in Procs : BookRelease(p)
    \/ \E p \in Procs : BookRespond(p)
    \/ \E p \in Procs : Raised(p)
    \/ \E p \in Procs, a \in 1..MaxAppts : AllIdle /\ Cancel(p, a, "Patient request")
    \/ \E a \in 1..MaxAppts : ProcessWaitlist(a)

SpecScan == Init /\ [][NextScan]_vars

\* DELETE /appointments/{appointment_id} called while other book and cancel
\* requests and the background scan of an earlier cancel are in flight; no
\* other handler that writes a reservation runs.
NextCancelRace ==
    \/ \E p \in Procs, k \in Keys : BookAcquire(p, k)
    \/ \E p \in Procs : BookCheck(p)
    \/ \E p \in Procs, valid \in BOOLEAN : BookCreate(p, "R1", valid)
    \/ \E p \in Procs : BookRelease(p)
    \/ \E p \in Procs : BookRespond(p)
    \/ \E p \in Procs : Raised(p)
    \/ \E p \in Procs, a \in 1..MaxAppts : Cancel(p, a, "Patient request")
    \/ \E a \in 1..MaxAppts : ProcessWaitlist(a)

SpecCancelRace == Init /\ [][NextCancelRace]_vars

\* ==================================================================== claims

InCritical(p) == pc[p] \in {"check", "create", "release"}

\* C3: acquire(key, ttl) returns true and installs a record with
\* expires_at = now + ttl exactly when no record exists for key or the
\* existing record's expires_at is not in the future; otherwise it returns
\* false and leaves the lock table unchanged.
C3_AcquireIffFree ==
    [][\A c \in Procs, k \in SlotKeys, ttl \in Ttls :
         LockAcquire(c, k, ttl) =>
           LET free == locks[k] = NoLock \/ locks[k].expires_at <= now IN
           /\ ret'.value = free
           /\ free => locks' = [locks EXCEPT ![k] =
                                  [acquired_at |-> now, expires_at |-> now + ttl]]
           /\ ~free => locks' = locks]_vars

\* An acquire that reclaimed a record at the very instant it expired.
C3_Witness ==
    /\ ret = [op |-> "acquire", value |-> TRUE]
    /\ \E k \in SlotKeys : locks[k].acquired_at = now /\ now >= TickStep
    /\ \E k \in SlotKeys : locks[k] # NoLock /\ locks[k].expires_at = now

\* C4: at every instant at most one caller holds an unexpired, unreleased
\* lock on a key.
C4_OneHolderPerKey ==
    \A k \in Keys : Cardinality(LiveHolders(k)) <= 1

\* A second caller was refused while the first still holds the lock.
C4_Witness ==
    /\ ret = [op |-> "acquire", value |-> FALSE]
    /\ \E k \in SlotKeys : Cardinality(LiveHolders(k)) = 1

\* C6: release removes the record of its key (a no-op when there is none),
\* extend changes expires_at and returns true only when a record exists and
\* returns false otherwise; neither creates a record or touches another key.
C6_ReleaseExtendFrame ==
    [][/\ \A k \in SlotKeys :
            LockRelease(k) =>
              /\ locks'[k] = NoLock
              /\ \A j \in Keys \ {k} : locks'[j] = locks[j]
       /\ \A k \in SlotKeys, ttl \in Ttls :
            LockExtend(k, ttl) =>
              /\ ret'.value = (locks[k] # NoLock)
              /\ locks[k] # NoLock =>
                   locks'[k] = [locks[k] EXCEPT !.expires_at = now + ttl]
              /\ locks[k] = NoLock => locks'[k] = NoLock
              /\ \A j \in Keys \ {k} : locks'[j] = locks[j]]_vars

\* A release that left another key's record in place.
C6_Witness ==
    /\ ret.op = "release"
    /\ \E k, j \in SlotKeys : k # j /\ locks[k] = NoLock /\ locks[j] # NoLock

\* Appointments whose book call has returned successfully, per natural key.
BookedOk(k) == {a \in confirmations : appointments[a].key = k}

C5_TtlBoundsContention ==
    [][\A p \in Procs, k \in Keys :
         (BookAcquire(p, k) /\ locks[k] # NoLock) =>
           /\ now < locks[k].acquired_at + LOCK_TTL =>
                (pc'[p] = "raised" /\ req'[p].error = "SlotContended")
           /\ now > locks[k].acquired_at + LOCK_TTL =>
                (pc'[p] = "check" /\ locks'[k].acquired_at = now)]_vars

\* A stalled call never released its lock, and a later call on the same key
\* got the lock after the ttl had elapsed.
C5_Witness ==
    \E p, q \in Procs :
        /\ p # q
        /\ InCritical(p) /\ InCritical(q)
        /\ req[p].key = req[q].key
        /\ locks[req[p].key].acquired_at > LOCK_TTL

\* C7: once a book call has returned, on any exit path, the lock it acquired
\* is no longer held.
C7_LockReleasedOnReturn ==
    \A p \in Procs :
        pc[p] \in {"idle", "respond", "raised"} =>
            \A k \in Keys : p \notin granted[k]

\* A call that acquired the lock and then failed has returned.
C7_Witness ==
    \E p \in Procs :
        pc[p] = "raised" /\ req[p].error \in {"SlotUnavailable", "Error"}

\* C8: a successful book releases the lock only after the slot is Booked and
\* before the confirmation is dispatched; the lock is not held by the call
\* when the confirmation is dispatched.
C8_BookedThenReleasedThenNotified ==
    [][\A p \in Procs :
         /\ BookRelease(p) =>
              /\ ~is_slot_available(slots, req[p].key)
              /\ req[p].appt \notin confirmations
         /\ BookRespond(p) =>
              /\ p \notin granted[req[p].key]
              /\ req[p].appt \in confirmations'
              /\ locks' = locks]_vars

\* A confirmation has been dispatched.
C8_Witness == confirmations # {}

\* C10: a book that cannot acquire the lock fails with SlotContended and
\* changes no reservation, no slot and no lock record.
C10_ContendedNoSideEffects ==
    [][\A p \in Procs, k \in Keys :
         (BookAcquire(p, k) /\ ~LockFree(locks, k, now)) =>
           /\ pc'[p] = "raised"
           /\ req'[p].error = "SlotContended"
           /\ appointments' = appointments
           /\ slots' = slots
           /\ locks' = locks
           /\ granted' = granted]_vars

\* A call was refused while another call holds the lock on the same key.
C10_Witness ==
    \E p, q \in Procs :
        /\ pc[p] = "raised" /\ req[p].error = "SlotContended"
        /\ InCritical(q) /\ req[q].key = req[p].key
        /\ q \in LiveHolders(req[p].key)

\* Reservations that are not cancelled and reference the slot of key k.
Live(k) == {a \in 1..Len(appointments) :
              appointments[a].key = k /\ appointments[a].status # "cancelled"}

\* C2: in every reachable state at most one live (non-cancelled) reservation
\* references a given slot.
C2_OneLiveReservationPerSlot ==
    \A k \in SlotKeys : Cardinality(Live(k)) <= 1

\* C9: once book has returned successfully for a natural key, the slot is
\* observed as Booked by the orchestrator's availability check and by the
\* availability search endpoint, as long as the reservation is not cancelled.
C9_BookedVisibleToEverySearch ==
    \A a \in confirmations :
        appointments[a].status # "cancelled" =>
            /\ ~is_slot_available(slots, appointments[a].key)
            /\ appointments[a].key \notin search_slots(apiSlots)

\* The slot of natural key k is not Available to the orchestrator: it is
\* Booked, or no slot exists for k.
NotAvailable(k) == k \notin DOMAIN slots \/ ~slots[k].available

\* C11: a book that holds the lock and finds its slot not Available (Booked,
\* or no slot for the natural key) fails with SlotUnavailable, creates no
\* reservation and leaves every slot unchanged.
C11_UnavailableNoSideEffects ==
    [][\A p \in Procs :
         /\ (BookCheck(p) /\ NotAvailable(req[p].key)) => ~req'[p].is_available
         /\ \A patient \in Patients, valid \in BOOLEAN :
              (BookCreate(p, patient, valid) /\ ~req[p].is_available) =>
                /\ pc'[p] = "raised"
                /\ req'[p].error = "SlotUnavailable"
                /\ appointments' = appointments
                /\ slots' = slots
                /\ apiSlots' = apiSlots]_vars

\* One call was refused on a Booked slot and another on a key without slot.
C11_Witness ==
    \E p, q \in Procs :
        /\ pc[p] = "raised" /\ req[p].error = "SlotUnavailable"
        /\ req[p].key \in SlotKeys /\ ~slots[req[p].key].available
        /\ pc[q] = "raised" /\ req[q].error = "SlotUnavailable"
        /\ req[q].key \notin SlotKeys
\* The book call of p at "create" stores a new reservation for patient.
BookStores(p, patient) ==
    /\ Len(appointments') = Len(appointments) + 1
    /\ SubSeq(appointments', 1, Len(appointments)) = appointments
    /\ req'[p].appt = Len(appointments') /\ ~Known(req'[p].appt)
    /\ appointments'[req'[p].appt].status = "scheduled"
    /\ appointments'[req'[p].appt].patient = patient
    /\ appointments'[req'[p].appt].key = req[p].key
    /\ ~slots'[req[p].key].available
    /\ pc'[p] = "release"

\* The steps of a book call up to "create" and after it: the lock is granted
\* when free, an Available slot is read as available, and a stored reservation
\* is returned to the caller.
BookProceeds(p) ==
    /\ \A k \in Keys : (BookAcquire(p, k) /\ LockFree(locks, k, now)) => pc'[p] = "check"
    /\ (BookCheck(p) /\ ~NotAvailable(req[p].key)) => req'[p].is_available
    /\ BookRelease(p) => (pc'[p] = "respond" /\ appointments' = appointments)
    /\ BookRespond(p) => req[p].appt \in confirmations'

Holder(S, k, t) ==
    IF k \in DOMAIN S /\ S[k].held_by # NoPatient /\ S[k].held_until > t
    THEN S[k].held_by
    ELSE NoPatient

\* C13: while a slot carries an unexpired hold placed by holder H, a book for
\* that slot by any requester other than H fails with SlotUnavailable and
\* stores nothing.
C13_HeldNotBookableByOthers ==
    [][\A p \in Procs, patient \in Patients, valid \in BOOLEAN :
         (/\ BookCreate(p, patient, valid)
          /\ Holder(apiSlots, req[p].key, now) \notin {NoPatient, patient}) =>
           /\ pc'[p] = "raised"
           /\ req'[p].error = "SlotUnavailable"
           /\ appointments' = appointments]_vars
\* C14: hold(slot_id, holder, duration) succeeds only when the slot exists and
\* is Available, installing Held(holder, now + duration); when the slot does
\* not exist, is Booked, or is Held by an unexpired hold, it fails and changes
\* neither the slot nor the hold records.
C14_HoldOnlyWhenAvailable ==
    [][\A k \in Keys, patient \in Patients, d \in Durations :
         HoldSlot(k, patient, d) =>
           LET free == /\ k \in DOMAIN apiSlots
                       /\ apiSlots[k].available
                       /\ Holder(apiSlots, k, now) = NoPatient
           IN  /\ free => /\ hret'.value
                          /\ apiSlots'[k].held_by = patient
                          /\ apiSlots'[k].held_until = now + d * SECONDS_PER_MINUTE
               /\ ~free => /\ ~hret'.value
                           /\ apiSlots' = apiSlots
                           /\ holds' = holds]_vars

\* Hold records of slot k with status "active".
ActiveHolds(k) == {i \in DOMAIN holds : holds[i].slot_id = k /\ holds[i].status = "active"}

\* C15: in every reachable state each slot has at most one Active hold record;
\* a hold that was released or superseded is no longer Active.
C15_OneActiveHoldPerSlot ==
    \A k \in SlotKeys :
        /\ Cardinality(ActiveHolds(k)) <= 1
        /\ \A i \in ActiveHolds(k) :
              /\ apiSlots[k].held_by = holds[i].patient_id
              /\ apiSlots[k].held_until = holds[i].expires_at
\* C16: release(slot_id, holder) clears the slot's hold only when holder is
\* the current holder; when the holder does not match, the slot is not held
\* or does not exist, it changes nothing and raises no error, so that a
\* second release changes nothing.
C16_ReleaseOnlyByHolder ==
    [][\A k \in Keys, patient \in Patients :
         ReleaseHold(k, patient) =>
           LET match == k \in DOMAIN apiSlots /\ apiSlots[k].held_by = patient IN
           /\ match => /\ apiSlots'[k].held_by = NoPatient
                        /\ apiSlots'[k].held_until = NoTime
                        /\ apiSlots'[k].available = apiSlots[k].available
                        /\ \A j \in DOMAIN apiSlots \ {k} : apiSlots'[j] = apiSlots[j]
           /\ ~match => apiSlots' = apiSlots
           /\ hret'.op = "release" /\ hret'.value = match
           /\ holds' = holds /\ slots' = slots
           /\ release_hold(apiSlots', k, patient).slots = apiSlots']_vars

\* A release changed nothing while every slot was held: the holder did not
\* match, or the slot does not exist.
C16_Witness ==
    /\ hret.op = "release" /\ ~hret.value
    /\ \A k \in SlotKeys : apiSlots[k].held_by # NoPatient
\* C17: after hold(s, A) followed by release(s, A), a hold(s, B) by a
\* different holder B succeeds and the slot is then held by B alone.
C17_ReleaseNotSticky ==
    [][\A k \in SlotKeys, patient \in Patients, d \in Durations :
         (HoldSlot(k, patient, d) /\ AfterRelease(k, patient)) =>
           /\ hret'.value
           /\ apiSlots'[k].held_by = patient
           /\ apiSlots'[k].held_until = now + d * SECONDS_PER_MINUTE
           /\ Holder(apiSlots', k, now) = patient
           /\ \A j \in SlotKeys \ {k} : apiSlots'[j] = apiSlots[j]]_vars

\* B holds a slot whose earlier hold by A had been released.
C17_Witness ==
    /\ hret.op = "hold" /\ hret.value /\ hret.after_release
    /\ \E k \in SlotKeys :
          /\ apiSlots[k].held_by = holds[Len(holds)].patient_id
          /\ holds[Len(holds)].slot_id = k
          /\ \E i \in 1..(Len(holds) - 1) :
                holds[i].slot_id = k /\ holds[i].patient_id # apiSlots[k].held_by
\* The hold on slot k has been in place for its whole duration unreleased.
Expired(k) ==
    /\ k \in DOMAIN apiSlots
    /\ apiSlots[k].held_by # NoPatient
    /\ apiSlots[k].held_until <= now

\* C18: once a hold has been in place for its duration without being
\* released, every operation treats the slot as Available with no sweep: the
\* search returns it, a hold by another holder succeeds and makes that holder
\* the slot's only holder, and a book by a different requester goes through as
\* on a slot that was never held (C12).
C18_ExpiredHoldIsNoHold ==
    [][\A k \in SlotKeys :
         Expired(k) =>
           /\ k \in search_slots(apiSlots)
           /\ \A patient \in Patients \ {apiSlots[k].held_by}, d \in Durations :
                HoldSlot(k, patient, d) =>
                  (hret'.value /\ Holder(apiSlots', k, now) = patient)
           /\ \A p \in Procs :
                /\ (BookAcquire(p, k) /\ LockFree(locks, k, now)) => pc'[p] = "check"
                /\ (BookCheck(p) /\ req[p].key = k /\ ~NotAvailable(k)) =>
                     req'[p].is_available
                /\ \A patient \in Patients \ {apiSlots[k].held_by} :
                     (/\ BookCreate(p, patient, TRUE)
                      /\ req[p].key = k /\ req[p].is_available) =>
                        BookStores(p, patient)]_vars

\* R2's book call, made after R1's hold on the slot had expired, has stored
\* its reservation.
C18_Witness ==
    \E p \in Procs :
        /\ pc[p] = "release"
        /\ Expired(req[p].key)
        /\ locks[req[p].key].acquired_at >= apiSlots[req[p].key].held_until
        /\ appointments[req[p].appt].patient # apiSlots[req[p].key].held_by
\* Slot k was reserved and every reservation that references it is cancelled.
Vacated(k) ==
    /\ Live(k) = {}
    /\ \E a \in 1..Len(appointments) : appointments[a].key = k

\* C19: after a successful cancel of the reservation occupying a slot, the
\* slot is Available and returned by search again, and a subsequent book for
\* the same natural key is no longer refused as unavailable: it reads the slot
\* as available and stores its reservation (C12).
C19_CancelReopensSlot ==
    [][/\ \A a \in 1..MaxAppts, reason \in Reasons :
            ((\E p \in Procs : Cancel(p, a, reason))
             /\ Known(a) /\ appointments[a].status # "cancelled") =>
              /\ slots'[appointments[a].key].available
              /\ appointments[a].key \in search_slots(slots')
              /\ appointments[a].key \in search_slots(apiSlots')
       /\ \A p \in Procs :
            /\ (BookCheck(p) /\ Vacated(req[p].key)) => req'[p].is_available
            /\ \A patient \in Patients, valid \in BOOLEAN :
                 (BookCreate(p, patient, valid) /\ req[p].is_available) =>
                   /\ req'[p].error # "SlotUnavailable"
                   /\ valid => BookStores(p, patient)]_vars

\* The first reservation of a slot was cancelled, and another requester's
\* book for the same natural key was then stored and returned.
C19_Witness ==
    \E a, b \in 1..Len(appointments) :
        /\ a < b /\ b \in confirmations
        /\ appointments[a].key = appointments[b].key
        /\ appointments[a].status = "cancelled"
        /\ appointments[b].status = "scheduled"
        /\ appointments[a].patient # appointments[b].patient
        /\ ~slots[appointments[b].key].available
\* C20: a successful cancel sets the reservation's status to Cancelled and
\* records the cancellation timestamp and the given reason, and the
\* reservation stays retrievable by id: no step of any operation removes a
\* reservation record.
C20_CancelRecordsAndKeeps ==
    [][/\ \A a \in 1..MaxAppts, reason \in Reasons :
            ((\E p \in Procs : Cancel(p, a, reason))
             /\ Known(a) /\ appointments[a].status # "cancelled") =>
              appointments' = [appointments EXCEPT
                                 ![a].status = "cancelled",
                                 ![a].cancellation_reason = reason,
                                 ![a].cancelled_at = now]
       /\ \A a \in 1..Len(appointments) :
            /\ a \in DOMAIN appointments'
            /\ appointments'[a].patient = appointments[a].patient]_vars

\* A reservation cancelled earlier with a reason is still stored, next to a
\* reservation made since.
C20_Witness ==
    \E a \in 1..Len(appointments) :
        /\ appointments[a].status = "cancelled"
        /\ appointments[a].cancellation_reason = "Patient request"
        /\ appointments[a].cancelled_at >= TickStep
        /\ appointments[a].cancelled_at < now
        /\ a < Len(appointments)

\* C21: a cancel or an update of an unknown reservation id fails with NotFound
\* and one of a Cancelled reservation fails with InvalidState, and the failing
\* call changes no reservation, no slot and no lock; a second cancel does not
\* make the slot Available again.
C21_UnknownOrCancelledRejected ==
    [][\A p \in Procs, a \in 1..MaxAppts :
         (/\ ~Known(a) \/ appointments[a].status = "cancelled"
          /\ \/ Cancel(p, a, "Patient request")
             \/ \E sd \in Days \cup {NoDate}, st \in Keys \cup {NoKey}, notes \in Notes :
                    UpdateCall(p, a, sd, st, notes)) =>
           /\ pc'[p] = "raised"
           /\ req'[p].error = IF Known(a) THEN "InvalidState" ELSE "NotFound"
           /\ UNCHANGED <<appointments, slots, apiSlots, locks>>]_vars

\* A second cancel of a reservation has failed with InvalidState while its
\* slot, booked again since the first cancel, is still Booked.
C21_Witness ==
    \E p \in Procs, b \in 1..Len(appointments) :
        /\ pc[p] = "raised"
        /\ req[p].op = "cancel"
        /\ req[p].error = "InvalidState"
        /\ Known(req[p].appt)
        /\ appointments[req[p].appt].status = "cancelled"
        /\ appointments[b].status = "scheduled"
        /\ appointments[b].key = appointments[req[p].appt].key
        /\ ~slots[appointments[b].key].available

\* C22: a reschedule whose destination slot is Booked or does not exist fails
\* and changes nothing: neither the check nor the failing step touches a
\* reservation or a slot, so the source slot is still Booked, the destination
\* keeps its status, and the reservation keeps its slot and notes.
C22_UnavailableDestinationRejected ==
    [][/\ \A p \in Procs, a \in 1..Len(appointments), sd \in Days \cup {NoDate},
             st \in Keys \cup {NoKey}, notes \in Notes :
            (/\ pc'[p] = "u_release"
             /\ NotAvailable(new_key(appointments[a].key, sd, st))
             /\ UpdateCall(p, a, sd, st, notes)) =>
              /\ ~req'[p].is_available
              /\ UNCHANGED <<appointments, slots>>
       /\ \A p \in Procs :
            (UpdateRelease(p) /\ ~req[p].is_available) =>
              /\ pc'[p] = "raised"
              /\ req'[p].error = "SlotUnavailable"
              /\ UNCHANGED <<appointments, slots>>
              /\ ~slots'[appointments'[req[p].appt].key].available]_vars

\* A reschedule onto a slot booked by another reservation has failed; both
\* slots are Booked and the reservation is where it was.
C22_Witness ==
    \E p \in Procs :
        /\ pc[p] = "raised"
        /\ req[p].op = "update"
        /\ req[p].error = "SlotUnavailable"
        /\ req[p].key \in DOMAIN slots
        /\ req[p].key # appointments[req[p].appt].key
        /\ ~slots[req[p].key].available
        /\ ~slots[appointments[req[p].appt].key].available
        /\ appointments[req[p].appt].notes = NoNotes
        /\ req[p].notes # NoNotes

C24_RescheduleMovesReservation ==
    [][/\ \A p \in Procs, a \in 1..Len(appointments), sd \in Days \cup {NoDate},
             st \in Keys \cup {NoKey}, notes \in Notes :
            (pc'[p] = "u_release" /\ UpdateCall(p, a, sd, st, notes)) =>
              /\ req'[p].appt = a
              /\ date_of(req'[p].key) =
                   IF sd = NoDate THEN date_of(appointments[a].key) ELSE sd
              /\ time_of(req'[p].key) =
                   IF st = NoKey THEN time_of(appointments[a].key) ELSE st
       /\ \A p \in Procs :
            (UpdateBook(p) /\ req[p].key # appointments[req[p].appt].key) =>
              /\ slots'[appointments[req[p].appt].key].available
              /\ ~slots'[req[p].key].available
              /\ Len(appointments') = Len(appointments)
              /\ appointments'[req[p].appt].key = req[p].key
              /\ appointments'[req[p].appt].status = appointments[req[p].appt].status
              /\ appointments'[req[p].appt].patient = appointments[req[p].appt].patient
              /\ \A b \in 1..Len(appointments) :
                   b # req[p].appt => appointments'[b] = appointments[b]]_vars

\* A reschedule that gave only a date has returned: the reservation is on the
\* next day at its old hour, that slot is Booked and the old slot Available.
C24_Witness ==
    \E p \in Procs :
        /\ pc[p] = "returned"
        /\ req[p].op = "update"
        /\ date_of(req[p].key) = SlotDate + 1
        /\ appointments[req[p].appt].key = req[p].key
        /\ appointments[req[p].appt].status = "scheduled"
        /\ ~slots[req[p].key].available
        /\ slots[combine(SlotDate, time_of(req[p].key))].available

\* C26: check_in and complete on an unknown or a Cancelled reservation fail
\* and leave every reservation unchanged: a Cancelled reservation does not
\* become CheckedIn or Completed.
C26_NoVisitOnCancelled ==
    [][\A p \in Procs, a \in 1..MaxAppts :
         (/\ CheckIn(p, a) \/ Complete(p, a, NoNotes)
          /\ ~Known(a) \/ appointments[a].status = "cancelled") =>
             /\ pc'[p] = "raised"
             /\ appointments' = appointments]_vars

\* C27: check_in on an existing Scheduled reservation sets its status to
\* CheckedIn and records the time of the call as the check-in timestamp, and
\* changes nothing else of it; no check_in and no complete changes a slot, a
\* hold or a lock.
C27_CheckInRecordsAndFrames ==
    [][\A p \in Procs, a \in 1..MaxAppts :
         /\ (CheckIn(p, a) /\ Known(a) /\ appointments[a].status = "scheduled") =>
              appointments' = [appointments EXCEPT
                                 ![a].status = "checked_in",
                                 ![a].checked_in_at = now]
         /\ (CheckIn(p, a) \/ Complete(p, a, NoNotes)) =>
              UNCHANGED <<slots, apiSlots, holds, locks>>]_vars

\* A reservation checked in after the clock advanced; its slot is still
\* Booked and no lock is left.
C27_Witness ==
    \E a \in 1..Len(appointments) :
        /\ appointments[a].status = "checked_in"
        /\ appointments[a].checked_in_at >= TickStep
        /\ appointments[a].cancelled_at = NoTime
        /\ ~slots[appointments[a].key].available
        /\ \A k \in Keys : locks[k] = NoLock

\* C28: a join receives a position greater than the position of every entry
\* that joined for the same provider before it, whatever joins for other
\* providers happened in between.
C28_PositionsIncreasePerProvider ==
    [][\A provider \in Providers :
         JoinWaitlist(provider) =>
           \A i \in 1..Len(entries) :
             entries[i].provider = provider =>
               entries'[Len(entries')].position > entries[i].position]_vars

\* C29: a join appends one entry whose position is 1 + the number of entries
\* of that provider that are Waiting at that moment, and no step (leave,
\* notify, a later join) changes the position of an entry already stored.
C29_PositionSetOnceAtJoin ==
    [][/\ \A provider \in Providers :
            JoinWaitlist(provider) =>
              /\ Len(entries') = Len(entries) + 1
              /\ entries'[Len(entries')].provider = provider
              /\ entries'[Len(entries')].position =
                   1 + Cardinality({i \in 1..Len(entries) :
                                      /\ entries[i].provider = provider
                                      /\ entries[i].status = "waiting"})
       /\ \A i \in 1..Len(entries) :
            /\ i \in DOMAIN entries'
            /\ entries'[i].position = entries[i].position
            /\ entries'[i].provider = entries[i].provider]_vars

\* The first entry of a provider has left; the second still has position 2,
\* and an entry that joined since was given 1 + 1.
C29_Witness ==
    \E i, j, k \in 1..Len(entries) :
        /\ i < j /\ j < k
        /\ entries[i].provider = entries[j].provider
        /\ entries[j].provider = entries[k].provider
        /\ entries[i].status = "removed" /\ entries[i].position = 1
        /\ entries[j].status = "waiting" /\ entries[j].position = 2
        /\ entries[k].status = "waiting" /\ entries[k].position = 2

\* C30: list_for_provider returns exactly the provider's Waiting entries, by
\* position ascending, and that order is the order in which they joined.
C30_ListIsWaitingInJoinOrder ==
    [][\A provider \in Providers :
         ListWaitlist(provider) =>
           /\ wret'.value = waiting(entries, provider)
           /\ \A m, n \in 1..Len(wret'.value) :
                m < n => entries[wret'.value[m]].position
                           <= entries[wret'.value[n]].position]_vars

\* C31: stats under a provider and a location filter reports total as the
\* number of matching entries, and waiting, notified and converted as the
\* numbers of matching entries that are Waiting, Notified and Booked, whose
\* sum is at most total; conversion_rate is converted / total, and 0 with no
\* division error when nothing matches.
C31_StatsCountsAndRate ==
    [][\A provider \in Providers \cup {NoProvider},
          location \in Locations \cup {NoLocation} :
         GetStats(provider, location) =>
           LET m == {i \in 1..Len(entries) :
                       /\ provider # NoProvider => entries[i].provider = provider
                       /\ location # NoLocation => entries[i].location = location}
               n(status) == Cardinality({i \in m : entries[i].status = status})
               st == wret'.stats
           IN  /\ st.error = "none"
               /\ st.total = Cardinality(m)
               /\ st.waiting = n("waiting")
               /\ st.notified = n("notified")
               /\ st.converted = n("booked")
               /\ st.waiting + st.notified + st.converted <= st.total
               /\ st.total = 0 => st.conversion_rate.num = 0
               /\ st.total > 0 =>
                    st.conversion_rate.num * st.total
                      = st.converted * st.conversion_rate.den]_vars

\* Stats were taken with a provider filter that matches none of the stored
\* entries, one of which is Booked: total and conversion_rate are 0.
C31_Witness ==
    /\ wret.op = "stats"
    /\ wret.provider # NoProvider
    /\ \E i \in 1..Len(entries) : entries[i].status = "booked"
    /\ wret.stats.total = 0
    /\ wret.stats.conversion_rate.num = 0
    /\ wret.stats.error = "none"

\* C32: the waitlist scan that follows a committed cancel notifies the
\* Waiting entries of the cancelled reservation's provider, and leaves the
\* reservation Cancelled and its slot as it is.
C32_CancelNotifiesWaitlist ==
    [][\A a \in 1..MaxAppts :
         ProcessWaitlist(a) =>
           /\ UNCHANGED <<appointments, slots>>
           /\ \A i \in 1..Len(entries) :
                (entries[i].provider = SlotProvider /\ entries[i].status = "waiting") =>
                    entries'[i].status = "notified"]_vars

\* C33: every step that changes a slot between Booked and Available is taken
\* while a lock for that slot's natural key is held: the key has a lock
\* record that has not expired.
C33_SlotWritesUnderLock ==
    [][\A k \in SlotKeys :
         slots'[k].available # slots[k].available =>
             /\ locks[k] # NoLock
             /\ locks[k].expires_at > now]_vars

\* C34: a slot has a holder and a hold expiry only while it is Held, that is
\* Available with a hold that has not expired: a slot that is Booked, or
\* Available again after release, expiry or cancellation, has neither.
C34_HolderOnlyWhileHeld ==
    \A k \in SlotKeys :
        /\ (apiSlots[k].held_by # NoPatient \/ apiSlots[k].held_until # NoTime) =>
               (apiSlots[k].available /\ apiSlots[k].held_until > now)
        /\ (slots[k].held_by # NoPatient \/ slots[k].held_until # NoTime) =>
               (slots[k].available /\ slots[k].held_until > now)

\* C35: the search returns only slots that are Available: no slot that it
\* returns is Held by a hold that has not expired.
C35_SearchReturnsNoHeldSlot ==
    \A k \in search_slots(apiSlots) : Holder(apiSlots, k, now) = NoPatient

C37_WaitingPositionsDistinct ==
    \A i, j \in 1..Len(entries) :
        (/\ i # j
         /\ entries[i].provider = entries[j].provider
         /\ entries[i].status = "waiting"
         /\ entries[j].status = "waiting") =>
            entries[i].position # entries[j].position

\* C38: Removed is terminal: no step changes the status or the notification
\* time of an entry that is Removed.
C38_RemovedIsTerminal ==
    [][\A e \in 1..Len(entries) :
         entries[e].status = "removed" =>
             /\ entries'[e].status = "removed"
             /\ entries'[e].notified_at = entries[e].notified_at]_vars
\* C39: in every reachable state the end time of every reservation is its
\* start time plus the booked duration, so it is after the start time, also
\* after a reschedule has moved the start time.
C39_EndTimeFollowsStart ==
    \A a \in 1..Len(appointments) :
        /\ appointments[a].end_time - minutes(appointments[a].key) = DEFAULT_DURATION
        /\ appointments[a].end_time > minutes(appointments[a].key)
\* C40: of the cancel calls made for one reservation, whatever other requests
\* are in flight, only the first succeeds: a cancel succeeds only on a
\* reservation that was never cancelled, it makes it Cancelled and its slot
\* Available, and the reservation stays Cancelled; every cancel after it
\* fails with InvalidState and changes no reservation and no slot.
C40_OneCancelSucceeds ==
    [][/\ \A a \in 1..Len(appointments) :
            appointments[a].status = "cancelled" =>
                appointments'[a].status = "cancelled"
       /\ \A p \in Procs, a \in 1..Len(appointments) :
            Cancel(p, a, "Patient request") =>
              IF appointments[a].status = "cancelled"
              THEN /\ pc'[p] = "raised"
                   /\ req'[p].error = "InvalidState"
                   /\ UNCHANGED <<appointments, slots, scans>>
              ELSE /\ appointments[a].cancelled_at = NoTime
                   /\ pc'[p] = "idle"
                   /\ appointments'[a].status = "cancelled"
                   /\ slots'[appointments[a].key].available
                   /\ \A k \in SlotKeys \ {appointments[a].key} :
                        slots'[k] = slots[k]]_vars

\* A second cancel of a reservation has failed with InvalidState while the
\* scan queued by the first is still pending and the other process is in the
\* middle of a book of the freed slot, whose check found it Available.
C40_Witness ==
    \E p, q \in Procs, a \in 1..Len(appointments) :
        /\ pc[p] = "raised"
        /\ req[p].op = "cancel"
        /\ req[p].appt = a
        /\ req[p].error = "InvalidState"
        /\ a \in scans
        /\ appointments[a].status = "cancelled"
        /\ slots[appointments[a].key].available
        /\ pc[q] = "create"
        /\ req[q].key = appointments[a].key
        /\ req[q].is_available
====
